---- MODULE Spec2Model ----
(***************************************************************************)
(* Mini-SAILS network optimizer: optimization.py (_prep_lanes,             *)
(* build_model, solve_and_extract), its caller app.py and utils.py.        *)
(*                                                                         *)
(* Units.  Weights are in lbs and every decision variable ranges over the  *)
(* grid Qty (multiples of 500 lbs).  Money is in cents, so the lane rate   *)
(* $0.01 per lb-mile is 1 and $1000 is 100000.  haversine returns          *)
(* thirteenths of a mile, so that multiplying by ROAD_FACTOR = 1.3 is      *)
(* exact in whole miles.  A Python value that may be None is a sequence:   *)
(* <<>> is None and <<v>> is the value v.                                  *)
(*                                                                         *)
(* The MILP solver (CBC behind pulp) is an oracle: on a formulation with   *)
(* no feasible point it reports Infeasible, otherwise it returns any one   *)
(* of the minimum-cost feasible points.  A pulp variable that appears in   *)
(* neither the objective nor a constraint is not part of the problem and   *)
(* keeps varValue None after the solve.                                    *)
(***************************************************************************)
EXTENDS Integers, Sequences, FiniteSets, TLC

VARIABLES
    nodes,          \* node table: NodeID -> row
    raw_lanes,      \* lane table as uploaded: set of rows
    demand,         \* demand table: set of rows
    service_days,   \* scenario: max customer transit days
    shut_nodes,     \* scenario: forced-closed nodes
    pc,             \* position in solve_and_extract / app
    lanes,          \* prepared lane table: <<FromNode, ToNode>> -> row
    mdl,            \* the pulp problem: objective and constraints
    status,         \* pulp.LpStatus[mdl.status]
    varValue,       \* v.varValue of every declared variable
    res,            \* second component returned by solve_and_extract
    raised,         \* exception that ended the run, if any
    screen          \* what app.py has written to the page

vars == <<nodes, raw_lanes, demand, service_days, shut_nodes,
          pc, lanes, mdl, status, varValue, res, raised, screen>>

inputs == <<nodes, raw_lanes, demand, service_days, shut_nodes>>

(***************************************************************************)
(* Bounds of the model                                                     *)
(***************************************************************************)
\* decision variables range over 0, 500, ..., 500 * MaxLots lbs
MaxLots == 2

\* rows of a lanes.csv
MaxLaneRows == 3

Qty == {500 * k : k \in 0..MaxLots}

None == <<>>
Some(v) == <<v>>

(***************************************************************************)
(* utils.py                                                                *)
(***************************************************************************)
\* ROAD_FACTOR = 1.3, as tenths
ROAD_FACTOR == 13

\* great-circle distance between two sites, in 1/13 mile; 0 for one point
haversine(a, b) == IF a = b THEN 0 ELSE 1000

(***************************************************************************)
(* Input tables                                                            *)
(***************************************************************************)
NodeIDs == {"S1", "P1", "D1", "C1"}

TypeOf(n) ==
    CASE n = "S1" -> "Supplier"
      [] n = "P1" -> "Plant"
      [] n = "D1" -> "DC"
      [] n = "C1" -> "Customer"

\* one row of nodes.csv; s1site places the supplier (Latitude, Longitude);
\* cap = None is a file without the Cap_Lbs_Per_Period column
NodeRow(n, s1site, cap, fixed) ==
    LET row == [Type |-> TypeOf(n),
                Site |-> IF n = "S1" THEN s1site ELSE n,
                FixedCost |-> IF TypeOf(n) = "DC" THEN fixed ELSE 0,
                VarCost_per_lb |-> IF TypeOf(n) \in {"Plant", "DC"} THEN 1 ELSE 0]
    IN  IF cap = None THEN row ELSE row @@ [Cap_Lbs_Per_Period |-> cap[1]]

NodeSets == {{"P1", "C1"}, {"S1", "D1", "C1"}, {"S1", "P1", "D1", "C1"}}

NodeTables ==
    {[n \in ns |-> NodeRow(n, s, c, f)] :
        ns \in NodeSets, s \in {"S1", "C1"},
        c \in {None, Some(0), Some(500)}, f \in {0, 100000}}

\* one row of lanes.csv: no DutyRate and no CO2_per_lb_mi column
LaneRow(i, j) ==
    [FromNode |-> i, ToNode |-> j, Cost_per_lb_mi |-> 1, TransitDays |-> 2]

CandLanes ==
    {<<"S1", "P1">>, <<"S1", "D1">>, <<"D1", "C1">>, <<"P1", "C1">>, <<"S1", "C1">>}

LaneTables ==
    {{LaneRow(l[1], l[2]) : l \in ls} :
        ls \in {ls \in SUBSET CandLanes : ls # {} /\ Cardinality(ls) <= MaxLaneRows}}

\* the lane tables paired with a demand table of more than one period
SmallLaneTables == {lt \in LaneTables : Cardinality(lt) <= 2}

\* products.csv: a single product, no BOM_Component column
products == [p \in {"Widget"} |-> [Name |-> "Widget"]]

DemandRow(c, p, t, q) ==
    [CustomerID |-> c, ProductID |-> p, Period |-> t, DemandLbs |-> q]

DemandTables ==
    {{DemandRow("C1", "Widget", 1, q)} : q \in {0, 500, 1000}}
    \cup {{DemandRow("C1", "Widget", 1, q1), DemandRow("C1", "Widget", 2, q2)} :
            q1 \in {0, 500, 1000}, q2 \in {0, 500, 1000}}

(***************************************************************************)
(* _prep_lanes                                                             *)
(***************************************************************************)
\* DataFrame.merge(..., left_on=col, right_index=True): an inner join, rows
\* whose key is not in the node index are left out
merge(rows, tbl, col) == {r \in rows : r[col] \in DOMAIN tbl}

Dist_mi(tbl, r) ==
    (haversine(tbl[r.FromNode].Site, tbl[r.ToNode].Site) * ROAD_FACTOR) \div 130

prep_lanes(tbl, rows) ==
    LET joined == merge(merge(rows, tbl, "FromNode"), tbl, "ToNode")
    IN  [k \in {<<r.FromNode, r.ToNode>> : r \in joined} |->
            LET r == CHOOSE r \in joined : <<r.FromNode, r.ToNode>> = k
            IN  [Cost_per_lb_mi |-> r.Cost_per_lb_mi,
                 TransitDays |-> r.TransitDays,
                 Dist_mi |-> Dist_mi(tbl, r)]]

(***************************************************************************)
(* pulp expressions and constraints                                        *)
(* An LpAffineExpression is a function from variables to coefficients; a   *)
(* variable times 0 is the empty expression, as in pulp.                   *)
(***************************************************************************)
F(i, j, p, t) == <<"F", i, j, p, t>>
Make(pl, p, t) == <<"Make", pl, "-", p, t>>
Inv(n, p, t) == <<"Inv", n, "-", p, t>>
Open(d) == <<"Open", d, "-", "-", 0>>

Zero == [v \in {} |-> 0]

Coef(e, v) == IF v \in DOMAIN e THEN e[v] ELSE 0

\* pulp.lpSum(k * c(k) for k in K)
lpSum(K, c(_)) == [v \in {k \in K : c(k) # 0} |-> c(v)]

Plus(e1, e2) == [v \in DOMAIN e1 \cup DOMAIN e2 |-> Coef(e1, v) + Coef(e2, v)]

Minus(e1, e2) == [v \in DOMAIN e1 \cup DOMAIN e2 |-> Coef(e1, v) - Coef(e2, v)]

LpConstraint(e, sense, rhs) == [e |-> e, sense |-> sense, rhs |-> rhs]

(***************************************************************************)
(* build_model                                                             *)
(***************************************************************************)
RECURSIVE sorted(_)
sorted(S) ==
    IF S = {} THEN <<>>
    ELSE LET m == CHOOSE m \in S : \A x \in S : m <= x
         IN  <<m>> \o sorted(S \ {m})

OfType(ty) == {n \in DOMAIN nodes : nodes[n].Type = ty}
N == DOMAIN nodes
SUP == OfType("Supplier")
PLT == OfType("Plant")
DC == OfType("DC")
CST == OfType("Customer")
P == DOMAIN products
T == sorted({row.Period : row \in demand})
Periods == {T[k] : k \in 1..Len(T)}

\* keys of the four pulp.LpVariable.dicts
flowKeys(ln) == {F(l[1], l[2], p, t) : l \in DOMAIN ln, p \in P, t \in Periods}
makeKeys == {Make(pl, p, t) : pl \in PLT, p \in P, t \in Periods}
invKeys == {Inv(n, p, t) : n \in DC \cup PLT, p \in P, t \in Periods}
openKeys == {Open(d) : d \in DC}
allKeys(ln) == flowKeys(ln) \cup makeKeys \cup invKeys \cup openKeys

\* row.get(col, default) and "col in table.columns"
Get(row, col, default) == IF col \in DOMAIN row THEN row[col] ELSE default

node_fixed(n) == Get(nodes[n], "FixedCost", 0)
node_var(n) == Get(nodes[n], "VarCost_per_lb", 0)
node_cap(n) ==
    IF "Cap_Lbs_Per_Period" \in DOMAIN nodes[n]
    THEN Some(nodes[n].Cap_Lbs_Per_Period)
    ELSE None

\* carbon_price=0.0, the keyword default, which app.py's input starts at
carbon_price == 0

prod_cost == lpSum(makeKeys, LAMBDA v : node_var(v[2]))
wh_fixed == lpSum(openKeys, LAMBDA v : node_fixed(v[2]))
wh_hold == lpSum(invKeys, LAMBDA v : node_var(v[2]))
trans_cost(ln) ==
    lpSum(flowKeys(ln),
          LAMBDA v : ln[<<v[2], v[3]>>].Cost_per_lb_mi * ln[<<v[2], v[3]>>].Dist_mi)
duty_cost(ln) ==
    lpSum(flowKeys(ln), LAMBDA v : Get(ln[<<v[2], v[3]>>], "DutyRate", 0))
carbon(ln) ==
    lpSum(flowKeys(ln),
          LAMBDA v : (ln[<<v[2], v[3]>>].Dist_mi
                        * Get(ln[<<v[2], v[3]>>], "CO2_per_lb_mi", 0)
                        * carbon_price * 100) \div 220462)

\* Objective without the transportation term
ObjectiveNoTrans(ln) ==
    Plus(Plus(Plus(Plus(prod_cost, wh_fixed), wh_hold), duty_cost(ln)), carbon(ln))

Objective(ln) ==
    Plus(Plus(Plus(Plus(Plus(prod_cost, wh_fixed), wh_hold), trans_cost(ln)),
              duty_cost(ln)), carbon(ln))

\* Shutdown with "i==n and j==n" in place of "i==n or j==n"
ShutdownBothEnds(ln) ==
    {LpConstraint(lpSum({Open(n)}, LAMBDA v : 1), "==", 0) : n \in shut_nodes \cap DC}
    \cup {LpConstraint(lpSum({F(l[1], l[2], p, t)}, LAMBDA v : 1), "==", 0) :
            l \in {l \in DOMAIN ln : l[1] \in shut_nodes /\ l[2] \in shut_nodes},
            p \in P, t \in Periods}

\* Shutdown constraints
Shutdown(ln) ==
    {LpConstraint(lpSum({Open(n)}, LAMBDA v : 1), "==", 0) : n \in shut_nodes \cap DC}
    \cup {LpConstraint(lpSum({F(l[1], l[2], p, t)}, LAMBDA v : 1), "==", 0) :
            l \in {l \in DOMAIN ln : l[1] \in shut_nodes \/ l[2] \in shut_nodes},
            p \in P, t \in Periods}

\* "if cap:" - None and 0 are both falsy
Truthy(cap) == cap # None /\ cap[1] # 0

inflowTo(ln, n, p, t) ==
    lpSum({F(i, n, p, t) : i \in {i \in N : <<i, n>> \in DOMAIN ln}}, LAMBDA v : 1)

outflowFrom(ln, n, p, t) ==
    lpSum({F(n, j, p, t) : j \in {j \in N : <<n, j>> \in DOMAIN ln}}, LAMBDA v : 1)

\* Capacity with the inbound flow of a DC also gated by its open variable
CapacityGated(ln) ==
    {LpConstraint(lpSum({F(i, n, p, t) : i \in {i \in N : <<i, n>> \in DOMAIN ln},
                                         p \in P},
                        LAMBDA v : 1),
                  "<=", node_cap(n)[1]) :
        n \in {n \in PLT \cup DC : Truthy(node_cap(n))}, t \in Periods}
    \cup {LpConstraint(Plus(lpSum({F(i, d, p, t) : i \in {i \in N : <<i, d>> \in DOMAIN ln},
                                                   p \in P},
                                  LAMBDA v : 1),
                            lpSum({Open(d)}, LAMBDA v : 0 - 500 * MaxLots * Cardinality(N))),
                       "<=", 0) :
            d \in DC, t \in Periods}

\* Capacity
Capacity(ln) ==
    {LpConstraint(lpSum({F(i, n, p, t) : i \in {i \in N : <<i, n>> \in DOMAIN ln},
                                         p \in P},
                        LAMBDA v : 1),
                  "<=", node_cap(n)[1]) :
        n \in {n \in PLT \cup DC : Truthy(node_cap(n))}, t \in Periods}

\* Demand fulfilment that adds no constraint for an empty inflow sum
DemandFulfilmentNonEmpty(ln) ==
    {LpConstraint(inflowTo(ln, row.CustomerID, row.ProductID, row.Period),
                  ">=", row.DemandLbs) :
        row \in {row \in demand : \E i \in N : <<i, row.CustomerID>> \in DOMAIN ln}}

\* Demand fulfilment
DemandFulfilment(ln) ==
    {LpConstraint(inflowTo(ln, row.CustomerID, row.ProductID, row.Period),
                  ">=", row.DemandLbs) : row \in demand}

\* Service time
ServiceTime(ln) ==
    {LpConstraint(lpSum({F(i, row.CustomerID, row.ProductID, row.Period) :
                            i \in {i \in N : <<i, row.CustomerID>> \in DOMAIN ln}},
                        LAMBDA v : ln[<<v[2], v[3]>>].TransitDays),
                  "<=", row.DemandLbs * service_days) : row \in demand}

\* Mass balance with a plant's production on the inflow side
BalanceRowMakeIn(ln, n, p, ti) ==
    LET t == T[ti]
        inflow == IF n \in PLT
                  THEN Plus(inflowTo(ln, n, p, t), lpSum({Make(n, p, t)}, LAMBDA v : 1))
                  ELSE inflowTo(ln, n, p, t)
        outflow == outflowFrom(ln, n, p, t)
        inv_prev == IF ti > 1 THEN lpSum({Inv(n, p, T[ti - 1])}, LAMBDA v : 1) ELSE Zero
        inv_t == lpSum({Inv(n, p, t)}, LAMBDA v : 1)
    IN  LpConstraint(Minus(Plus(inflow, inv_prev), Plus(outflow, inv_t)), "==", 0)

\* Mass balance at DCs & Plants: inflow + inv_prev == outflow + inv[n,p,t]
BalanceRow(ln, n, p, ti) ==
    LET t == T[ti]
        inflow == inflowTo(ln, n, p, t)
        outflow == IF n \in PLT
                   THEN Plus(outflowFrom(ln, n, p, t), lpSum({Make(n, p, t)}, LAMBDA v : 1))
                   ELSE outflowFrom(ln, n, p, t)
        inv_prev == IF ti > 1 THEN lpSum({Inv(n, p, T[ti - 1])}, LAMBDA v : 1) ELSE Zero
        inv_t == lpSum({Inv(n, p, t)}, LAMBDA v : 1)
    IN  LpConstraint(Minus(Plus(inflow, inv_prev), Plus(outflow, inv_t)), "==", 0)

MassBalance(ln) ==
    {BalanceRow(ln, n, p, ti) : n \in DC \cup PLT, p \in P, ti \in 1..Len(T)}

\* BOM (simple one-level parent/child): make[pl,parent,t]*ratio >= make[pl,comp,t]
BOM ==
    {LpConstraint(Minus(lpSum({Make(pl, products[comp].BOM_Component, t)},
                              LAMBDA v : products[comp].InputLB_per_OutputLB),
                        lpSum({Make(pl, comp, t)}, LAMBDA v : 1)),
                  ">=", 0) :
        comp \in {c \in P : "BOM_Component" \in DOMAIN products[c]},
        pl \in PLT, t \in Periods}

build_model(ln) ==
    [objective |-> Objective(ln),
     constraints |-> Shutdown(ln) \cup Capacity(ln) \cup DemandFulfilment(ln)
                        \cup ServiceTime(ln) \cup MassBalance(ln) \cup BOM]

(***************************************************************************)
(* The solver oracle (mdl.solve): feasible and optimal points of mdl over  *)
(* the grid.  A point is a function from the problem's variables to        *)
(* values; points are built one variable at a time, period by period, and  *)
(* a constraint is tested as soon as all of its variables have a value.    *)
(***************************************************************************)
\* the variables of the problem: those of the objective and the constraints
problemVars(m) ==
    DOMAIN m.objective \cup UNION {DOMAIN c.e : c \in m.constraints}

\* cat='Binary' for Open, lowBound=0 for the others
Dom(v) == IF v[1] = "Open" THEN {0, 1} ELSE Qty

KindRank(v) ==
    CASE v[1] = "F" -> 1 [] v[1] = "Make" -> 2 [] v[1] = "Inv" -> 3 [] v[1] = "Open" -> 4

Before(v, w) ==
    \/ v[5] < w[5]
    \/ v[5] = w[5] /\ KindRank(v) <= KindRank(w)

RECURSIVE varOrder(_)
varOrder(S) ==
    IF S = {} THEN <<>>
    ELSE LET v == CHOOSE v \in S : \A w \in S : Before(v, w)
         IN  <<v>> \o varOrder(S \ {v})

RECURSIVE Dot(_, _, _)
\* sum of e[v] * x[v] over the variables in S
Dot(e, x, S) ==
    IF S = {} THEN 0
    ELSE LET v == CHOOSE v \in S : TRUE
         IN  e[v] * x[v] + Dot(e, x, S \ {v})

value(e, x) == Dot(e, x, DOMAIN e)

Holds(c, x) ==
    LET lhs == value(c.e, x)
    IN  CASE c.sense = "<=" -> lhs <= c.rhs
          [] c.sense = ">=" -> lhs >= c.rhs
          [] c.sense = "==" -> lhs = c.rhs

RECURSIVE Points(_, _, _)
\* the assignments to the first k variables of ord that satisfy every
\* constraint of cs whose variables are among them
Points(cs, ord, k) ==
    IF k = 0
    THEN IF \A c \in cs : DOMAIN c.e = {} => Holds(c, Zero) THEN {Zero} ELSE {}
    ELSE LET v == ord[k]
             seen == {ord[j] : j \in 1..k}
             due == {c \in cs : v \in DOMAIN c.e /\ DOMAIN c.e \subseteq seen}
         IN  {y \in {x @@ (v :> a) : x \in Points(cs, ord, k - 1), a \in Dom(v)} :
                \A c \in due : Holds(c, y)}

Feasible(m) ==
    LET ord == varOrder(problemVars(m))
    IN  Points(m.constraints, ord, Len(ord))

\* the minimum-cost points among feas
Optimal(obj, feas) ==
    LET costs == {value(obj, x) : x \in feas}
        best == CHOOSE b \in costs : \A c \in costs : b <= c
    IN  {x \in feas : value(obj, x) = best}

(***************************************************************************)
(* solve_and_extract and app.py, step by step                              *)
(***************************************************************************)
Scenarios ==
    {sc \in [nodes : NodeTables, raw_lanes : LaneTables, demand : DemandTables,
             service_days : {0, 1, 7}, shut_nodes : {{}, {"D1"}, {"S1"}}] :
        /\ DOMAIN prep_lanes(sc.nodes, sc.raw_lanes) # {}
        /\ Cardinality(sc.demand) > 1 => sc.raw_lanes \in SmallLaneTables}

Init ==
    /\ \E sc \in Scenarios :
        /\ nodes = sc.nodes
        /\ raw_lanes = sc.raw_lanes
        /\ demand = sc.demand
        /\ service_days = sc.service_days
        /\ shut_nodes = sc.shut_nodes
    /\ pc = "start"
    /\ lanes = Zero
    /\ mdl = [objective |-> Zero, constraints |-> {}]
    /\ status = "Not Solved"
    /\ varValue = Zero
    /\ res = None
    /\ raised = None
    /\ screen = None

\* build_model, line 22: lanes = _prep_lanes(nodes, lanes)
PrepLanes ==
    /\ pc = "start"
    /\ lanes' = prep_lanes(nodes, raw_lanes)
    /\ pc' = "prepped"
    /\ UNCHANGED <<inputs, mdl, status, varValue, res, raised, screen>>

\* build_model, lines 23-110
BuildModel ==
    /\ pc = "prepped"
    /\ mdl' = build_model(lanes)
    /\ pc' = "built"
    /\ UNCHANGED <<inputs, lanes, status, varValue, res, raised, screen>>

\* v.varValue of the declared variables once the solver returned point x
assigned(x) ==
    [v \in allKeys(lanes) |-> IF v \in DOMAIN x THEN Some(x[v]) ELSE None]

\* mdl.solve(solver): Infeasible when the problem has no feasible point,
\* otherwise any minimum-cost point
Solve ==
    /\ pc = "built"
    /\ LET feas == Feasible(mdl)
       IN  IF feas = {}
           THEN /\ status' = "Infeasible"
                /\ varValue' = [v \in allKeys(lanes) |-> None]
           ELSE \E x \in Optimal(mdl.objective, feas) :
                /\ status' = "Optimal"
                /\ varValue' = assigned(x)
    /\ pc' = "solved"
    /\ UNCHANGED <<inputs, lanes, mdl, res, raised, screen>>

\* solve_and_extract without the early return: the tables are built anyway
ReturnsPartial ==
    /\ pc = "solved"
    /\ status # "Optimal"
    /\ res' = Some([flow |-> {}, open_dc |-> {}, objective |-> 0])
    /\ pc' = "returned"
    /\ UNCHANGED <<inputs, lanes, mdl, status, varValue, raised, screen>>

\* lines 117-118
ReturnStatus ==
    /\ pc = "solved"
    /\ status # "Optimal"
    /\ res' = None
    /\ pc' = "returned"
    /\ UNCHANGED <<inputs, lanes, mdl, status, varValue, raised, screen>>

\* lines 121-125: v.varValue and v.varValue>1e-6
flow_df ==
    {[From |-> v[2], To |-> v[3], Product |-> v[4], Period |-> v[5],
      FlowLbs |-> varValue[v][1]] :
        v \in {v \in flowKeys(lanes) :
                 /\ varValue[v] # None
                 /\ varValue[v][1] # 0
                 /\ varValue[v][1] * 1000000 > 1}}

\* line 128: v.varValue>0.5
open_dc == {d \in DC : varValue[Open(d)][1] * 2 > 1}

objective_value == value(mdl.objective, [v \in DOMAIN mdl.objective |-> varValue[v][1]])

\* lines 120-129
Extract ==
    /\ pc = "solved"
    /\ status = "Optimal"
    /\ \A d \in DC : varValue[Open(d)] # None
    /\ res' = Some([flow |-> flow_df, open_dc |-> open_dc, objective |-> objective_value])
    /\ pc' = "returned"
    /\ UNCHANGED <<inputs, lanes, mdl, status, varValue, raised, screen>>

\* line 128 when some Open variable is not part of the problem: None > 0.5
\* raises TypeError and solve_and_extract returns nothing
ExtractRaises ==
    /\ pc = "solved"
    /\ status = "Optimal"
    /\ \E d \in DC : varValue[Open(d)] = None
    /\ raised' = Some("TypeError")
    /\ pc' = "raised"
    /\ UNCHANGED <<inputs, lanes, mdl, status, varValue, res, screen>>

\* app.py, lines 23-24
ShowError ==
    /\ pc = "returned"
    /\ status # "Optimal"
    /\ screen' = Some([kind |-> "error", text |-> status])
    /\ pc' = "shown"
    /\ UNCHANGED <<inputs, lanes, mdl, status, varValue, res, raised>>

\* app.py, lines 25-30
ShowResult ==
    /\ pc = "returned"
    /\ status = "Optimal"
    /\ screen' = Some([kind |-> "success", objective |-> res[1].objective,
                       open_dc |-> res[1].open_dc, flow |-> res[1].flow])
    /\ pc' = "shown"
    /\ UNCHANGED <<inputs, lanes, mdl, status, varValue, res, raised>>

Next ==
    \/ PrepLanes
    \/ BuildModel
    \/ Solve
    \/ ReturnStatus
    \/ Extract
    \/ ExtractRaises
    \/ ShowError
    \/ ShowResult

Spec == Init /\ [][Next]_vars

(***************************************************************************)
(* Properties                                                              *)
(***************************************************************************)
Returned == pc \in {"returned", "shown"}

Val(x, v) == IF v \in DOMAIN x THEN x[v] ELSE 0

RECURSIVE SumVal(_, _)
SumVal(x, S) ==
    IF S = {} THEN 0
    ELSE LET v == CHOOSE v \in S : TRUE
         IN  Val(x, v) + SumVal(x, S \ {v})

\* flow into and out of node n at point x, over the prepared lanes
Inbound(x, n, p, t) ==
    SumVal(x, {F(l[1], n, p, t) : l \in {l \in DOMAIN lanes : l[2] = n}})

Outbound(x, n, p, t) ==
    SumVal(x, {F(n, l[2], p, t) : l \in {l \in DOMAIN lanes : l[1] = n}})

RECURSIVE SumLbs(_)
SumLbs(rows) ==
    IF rows = {} THEN 0
    ELSE LET r == CHOOSE r \in rows : TRUE
         IN  r.FlowLbs + SumLbs(rows \ {r})

\* FlowLbs of the flow table's records into customer c for product p, period t
TableInbound(tab, c, p, t) ==
    SumLbs({r \in tab : r.To = c /\ r.Product = p /\ r.Period = t})

EndToEndScenario ==
    /\ DOMAIN nodes = {"P1", "C1"}
    /\ raw_lanes = {LaneRow("P1", "C1")}
    /\ demand = {DemandRow("C1", "Widget", 1, 1000)}
    /\ service_days = 7
    /\ shut_nodes = {}

\* C1: in the two-node scenario (Plant P1, Customer C1, lane P1->C1 of 100
\* road miles at $0.01 per lb-mile and 2 transit days, one demand record of
\* 1000 lbs, service_days = 7) solve_and_extract returns Optimal, the flow
\* table is exactly {(P1, C1, Widget, 1, 1000)} and the objective is
\* 100 * 0.01 * 1000 dollars plus the plant's variable cost on its production.
C1_EndToEnd ==
    (EndToEndScenario /\ Returned /\ lanes[<<"P1", "C1">>].Dist_mi = 100) =>
        /\ status = "Optimal"
        /\ res # None
        /\ res[1].flow = {[From |-> "P1", To |-> "C1", Product |-> "Widget",
                           Period |-> 1, FlowLbs |-> 1000]}
        /\ res[1].objective =
              100 * 1 * 1000 + node_var("P1") * varValue[Make("P1", "Widget", 1)][1]

\* C2: whenever solve_and_extract returns Optimal, no record of the flow table
\* has a forced-closed node as From or To, and a forced-closed DC is not in
\* open_dc.
C2_ForcedClosed ==
    (Returned /\ status = "Optimal") =>
        \A n \in shut_nodes :
            /\ \A r \in res[1].flow : r.From # n /\ r.To # n
            /\ n \in DC => n \notin res[1].open_dc

C2_Witness ==
    /\ Returned /\ status = "Optimal"
    /\ shut_nodes = {"D1"} /\ "D1" \in DC
    /\ \E l \in DOMAIN lanes : l[1] = "D1"
    /\ \E l \in DOMAIN lanes : l[2] = "D1"
    /\ res[1].flow # {}

\* C3: in every solution the model accepts, for every Plant or DC whose
\* capacity value is defined (zero included) and every period, the inbound
\* flow summed over lanes and products is at most the capacity.
C3_Capacity ==
    (pc = "built" /\ service_days > 0) =>
        \A x \in Feasible(mdl) : \A n \in PLT \cup DC :
            node_cap(n) # None =>
                \A t \in Periods :
                    SumVal(x, {F(l[1], n, p, t) :
                                 l \in {l \in DOMAIN lanes : l[2] = n}, p \in P})
                        <= node_cap(n)[1]

\* C4: on a status other than Optimal solve_and_extract returns the status
\* with None, and the caller shows only the status string.
C4_NonOptimal ==
    (Returned /\ status # "Optimal") =>
        /\ res = None
        /\ pc = "shown" => screen = Some([kind |-> "error", text |-> status])

C4_Witness == pc = "shown" /\ status = "Infeasible" /\ demand # {}

\* C5: when service_days <= 0 model building fails with InvalidScenario, the
\* solver is never invoked and no solver status is reached.
C5_FailFast ==
    service_days <= 0 =>
        /\ pc = "start" \/ pc = "prepped" \/ raised = Some("InvalidScenario")
        /\ status = "Not Solved"

Unserved(row) == ~ \E l \in DOMAIN lanes : l[2] = row.CustomerID

Solved == pc \in {"solved", "returned", "shown", "raised"}

\* C6 as stated: a demand record of any quantity >= 0 whose customer has no
\* inbound lane in the prepared lane table makes solve_and_extract return
\* Infeasible and no result.
C6_AnyQuantity ==
    (Solved /\ service_days > 0 /\ \E row \in demand : row.DemandLbs >= 0 /\ Unserved(row)) =>
        /\ status = "Infeasible"
        /\ raised = None
        /\ Returned => res = None

\* C6 as amended: a demand record of a quantity > 0 whose customer has no
\* inbound lane in the prepared lane table makes solve_and_extract return
\* Infeasible and no result.
C6_PositiveQuantity ==
    (Solved /\ \E row \in demand : row.DemandLbs > 0 /\ Unserved(row)) =>
        /\ status = "Infeasible"
        /\ raised = None
        /\ Returned => res = None

C6_Witness ==
    /\ Returned /\ status = "Infeasible" /\ service_days > 0
    /\ \E row \in demand : row.DemandLbs > 0 /\ Unserved(row)

Dangling(r) == r.FromNode \notin DOMAIN nodes \/ r.ToNode \notin DOMAIN nodes

\* C7: if a raw lane has an endpoint absent from the node table, _prep_lanes
\* fails with MissingNodeReference; no lane table is returned and no model
\* is built.
C7_MissingNode ==
    (\E r \in raw_lanes : Dangling(r)) =>
        pc = "start" \/ raised = Some("MissingNodeReference")

DirectLane(row) ==
    \E l \in DOMAIN lanes :
        l[2] = row.CustomerID /\ lanes[l].TransitDays <= service_days

NoOverShipment ==
    \A row \in demand :
        TableInbound(res[1].flow, row.CustomerID, row.ProductID, row.Period)
            = row.DemandLbs

\* C8 as stated: with no DC capacity limit, a direct lane for each demand
\* record and every lane's cost rate strictly positive, every Optimal result
\* ships into each demanded (customer, product, period) exactly the demand.
C8_PositiveRate ==
    (/\ Returned /\ status = "Optimal"
     /\ \A d \in DC : node_cap(d) = None
     /\ \A row \in demand : DirectLane(row)
     /\ \A l \in DOMAIN lanes : lanes[l].Cost_per_lb_mi > 0) => NoOverShipment

\* C8 as amended: the same with every lane's transportation cost per lb,
\* cost rate times road distance, strictly positive.
C8_PositiveCost ==
    (/\ Returned /\ status = "Optimal"
     /\ \A d \in DC : node_cap(d) = None
     /\ \A row \in demand : DirectLane(row)
     /\ \A l \in DOMAIN lanes :
            lanes[l].Cost_per_lb_mi * lanes[l].Dist_mi > 0) => NoOverShipment

C8_Witness ==
    /\ Returned /\ status = "Optimal"
    /\ \A d \in DC : node_cap(d) = None
    /\ \A row \in demand : DirectLane(row)
    /\ \A l \in DOMAIN lanes : lanes[l].Cost_per_lb_mi * lanes[l].Dist_mi > 0
    /\ \E row \in demand :
        /\ row.DemandLbs > 0
        /\ row.DemandLbs < 500 * MaxLots
        /\ TableInbound(res[1].flow, row.CustomerID, row.ProductID, row.Period)
              = row.DemandLbs

\* C9: open[d] appears only in the fixed-cost term of the objective and in the
\* forced-shutdown constraint, and whenever every DC has a strictly positive
\* FixedCost, open_dc is empty in every Optimal result.
C9_OpenNotLinked ==
    /\ pc \notin {"start", "prepped"} =>
        \A d \in DC :
            /\ Coef(mdl.objective, Open(d)) = node_fixed(d)
            /\ \A c \in mdl.constraints :
                Open(d) \in DOMAIN c.e =>
                    /\ d \in shut_nodes
                    /\ c = LpConstraint([v \in {Open(d)} |-> 1], "==", 0)
    /\ (Returned /\ status = "Optimal" /\ \A d \in DC : node_fixed(d) > 0) =>
        res[1].open_dc = {}

\* an Optimal result with flow records into and out of a DC absent from open_dc
C9_Witness ==
    /\ Returned /\ status = "Optimal"
    /\ "D1" \in DC /\ node_fixed("D1") > 0
    /\ \E r \in res[1].flow : r.To = "D1"
    /\ \E r \in res[1].flow : r.From = "D1"
    /\ "D1" \notin res[1].open_dc

RECURSIVE CumIn(_, _, _, _)
CumIn(x, n, p, k) ==
    IF k = 0 THEN 0 ELSE Inbound(x, n, p, T[k]) + CumIn(x, n, p, k - 1)

RECURSIVE CumOut(_, _, _, _)
CumOut(x, n, p, k) ==
    IF k = 0 THEN 0 ELSE Outbound(x, n, p, T[k]) + CumOut(x, n, p, k - 1)

PlantLaw(x) ==
    \A pl \in PLT, p \in P :
        /\ \A ti \in 1..Len(T) :
            Outbound(x, pl, p, T[ti]) + Val(x, Make(pl, p, T[ti])) + Val(x, Inv(pl, p, T[ti]))
              = Inbound(x, pl, p, T[ti])
                  + (IF ti > 1 THEN Val(x, Inv(pl, p, T[ti - 1])) ELSE 0)
        /\ \A k \in 1..Len(T) : CumOut(x, pl, p, k) <= CumIn(x, pl, p, k)
        /\ (~ \E l \in DOMAIN lanes : l[2] = pl) =>
              \A t \in Periods :
                  /\ Outbound(x, pl, p, t) = 0
                  /\ Val(x, Make(pl, p, t)) = 0
                  /\ Val(x, Inv(pl, p, t)) = 0

\* C10: in every solution the model accepts, for every plant, product and
\* period (in sorted order) outbound flow + production + ending inventory =
\* inbound flow + previous-period inventory (0 at the first period); so over
\* any prefix of periods cumulative outbound <= cumulative inbound, and a
\* plant with no inbound lanes ships, produces and stores nothing.
C10_PlantBalance ==
    pc = "built" => \A x \in Feasible(mdl) : PlantLaw(x)

\* a two-period point where the plant ships in period 2 what it received and
\* stored in period 1
C10_Witness ==
    /\ pc = "built" /\ Len(T) = 2 /\ "P1" \in PLT
    /\ \E x \in Feasible(mdl) :
        /\ Val(x, Inv("P1", "Widget", T[1])) > 0
        /\ Inbound(x, "P1", "Widget", T[2]) = 0
        /\ Outbound(x, "P1", "Widget", T[2]) > 0

====
